---- MODULE Spec2Model ----
(***************************************************************************)
(* Model of adafruit_usb_host_mass_storage.USBMassStorage: the descriptor  *)
(* scan, session set-up, readiness loop and block-device calls of a USB    *)
(* Mass Storage Bulk-Only Transport host driver.                           *)
(*                                                                         *)
(* Conventions.  Byte buffers are sequences of 0..255; Python index j is   *)
(* TLA+ index j+1 (see At).  Python's None is the empty tuple.  TLC's      *)
(* integers are 32 bits wide, so a Python integer that may reach 2^32      *)
(* (block number, last LBA, sector count, block size) is a pair <<hi, lo>> *)
(* standing for hi * 65536 + lo with lo in 0..65535.                       *)
(***************************************************************************)
EXTENDS Integers, Sequences, FiniteSets, TLC

(* ---------------- program constants ---------------- *)
DIR_OUT == 0
DIR_IN == 128
REQ_RCPT_INTERFACE == 1
REQ_TYPE_CLASS == 32
MP_BLOCKDEV_IOCTL_BLOCK_COUNT == 4
MSC_REQ_GET_GET_MAX_LUN == 254
SCSI_CMD_TEST_UNIT_READY == 0
SCSI_CMD_INQUIRY == 18
SCSI_CMD_READ_CAPACITY_10 == 37
SCSI_CMD_REQUEST_SENSE == 3
SCSI_CMD_READ_10 == 40
SCSI_CMD_WRITE_10 == 42
DESC_CONFIGURATION == 2
DESC_INTERFACE == 4
DESC_ENDPOINT == 5
MSC_CLASS == 8
MSC_SUBCLASS == 6
DefaultTries == 100
StatusIndex == 12
CBW_LEN == 31
CSW_LEN == 13
INQUIRY_LEN == 36
SENSE_LEN == 18
CAPACITY_LEN == 8
BLOCK == 512

None == <<>>

(* ---------------- bounds of the model ---------------- *)
MaxIfaces == 2
MaxOps == 2

(* ---------------- bytes and integers ---------------- *)
At(buf, j) == buf[j + 1]
Zeros(n) == [j \in 1..n |-> 0]
\* buf[off : off + len(src)] = src, for a slice that lies inside buf
SetSlice(buf, off, src) ==
    [j \in 1..Len(buf) |->
        IF j > off /\ j <= off + Len(src) THEN src[j - off] ELSE buf[j]]
Slice(buf, off, n) == [j \in 1..n |-> buf[off + j]]

Big(hi, lo) == <<hi, lo>>
Fits32(n) == n[1] < 65536
BigAdd1(n) == IF n[2] = 65535 THEN <<n[1] + 1, 0>> ELSE <<n[1], n[2] + 1>>
BE16(v) == <<v \div 256, v % 256>>
BE32(n) == BE16(n[1]) \o BE16(n[2])
LE32(v) == <<v % 256, (v \div 256) % 256, (v \div 65536) % 256, (v \div 16777216) % 256>>
UnpackBE32(buf, off) ==
    Big(At(buf, off) * 256 + At(buf, off + 1), At(buf, off + 2) * 256 + At(buf, off + 3))

(* ---------------- configuration descriptors ---------------- *)
\* A descriptor is described by a configuration value and a list of
\* interfaces, each with a class, a subclass, a number and the records that
\* follow it: endpoint addresses, or 0 for a class-specific record.
ConfigRecord(cv) == <<9, DESC_CONFIGURATION, 32, 0, 1, cv, 0, 128, 50>>
InterfaceRecord(f) == <<9, DESC_INTERFACE, f.num, 0, Len(f.eps), f.cls, f.sub, 80, 0>>
EndpointRecord(addr) == <<7, DESC_ENDPOINT, addr, 2, 64, 0, 0>>
\* a class-specific record whose payload looks like an IN endpoint address
ClassSpecificRecord == <<5, 36, 133, 8, 6>>
SubRecord(e) == IF e = 0 THEN ClassSpecificRecord ELSE EndpointRecord(e)

RECURSIVE FlattenEps(_)
FlattenEps(eps) ==
    IF eps = <<>> THEN <<>> ELSE SubRecord(Head(eps)) \o FlattenEps(Tail(eps))
RECURSIVE FlattenIfaces(_)
FlattenIfaces(fs) ==
    IF fs = <<>> THEN <<>>
    ELSE InterfaceRecord(Head(fs)) \o FlattenEps(Head(fs).eps) \o FlattenIfaces(Tail(fs))
Flatten(d) == ConfigRecord(d.cfg) \o FlattenIfaces(d.ifaces)

CfgValues == {1, 2}
LunArgs == {0, 1}
IfaceKinds == {<<MSC_CLASS, MSC_SUBCLASS>>, <<MSC_CLASS, 5>>, <<3, MSC_SUBCLASS>>}
\* the records that may follow the interface at position p (its endpoints
\* carry addresses of their own: IN 0x80+p, OUT p)
EpShapes(p) == {<<>>, <<128 + p>>, <<p>>, <<128 + p, p>>, <<p, 0, 128 + p>>}
IfacesAt(p) ==
    {[num |-> p - 1, cls |-> k[1], sub |-> k[2], eps |-> e] :
        k \in IfaceKinds, e \in EpShapes(p)}
RECURSIVE IfaceSeqs(_)
IfaceSeqs(n) ==
    IF n = 0 THEN {<<>>}
    ELSE IfaceSeqs(n - 1) \cup
         {Append(fs, f) : fs \in {g \in IfaceSeqs(n - 1) : Len(g) = n - 1}, f \in IfacesAt(n)}
WellFormedDescs == {[cfg |-> c, ifaces |-> fs] : c \in CfgValues, fs \in IfaceSeqs(MaxIfaces)}
MscIface(p) == [num |-> p - 1, cls |-> MSC_CLASS, sub |-> MSC_SUBCLASS, eps |-> <<128 + p, p>>]
HidIface(p) == [num |-> p - 1, cls |-> 3, sub |-> 0, eps |-> <<128 + p>>]
\* a composite device with the storage interface second, and a keyboard
SessionDescs ==
    {[cfg |-> 2, ifaces |-> <<HidIface(1), MscIface(2)>>],
     [cfg |-> 1, ifaces |-> <<HidIface(1)>>]}

(* ---------------- state ---------------- *)
VARIABLES
    pc,                 \* position of the program (see Init)
    exc,                \* exception raised by the last call, "" when it returned
    ret,                \* value returned by the last block-device call
    call,               \* the last call and its arguments
    desc,               \* structure of the descriptor the device reports
    config_descriptor,  \* its bytes, as get_configuration_descriptor returns them
    lun_arg,            \* the constructor's lun argument
    i, config_value, in_msc_interface, msc_interface,   \* locals of the scan
    in_ep, out_ep, lun, device, sector_count, block_size, cbw, csw,  \* fields
    max_lun, try_num,   \* locals of __init__ and _wait_for_ready
    xfers,              \* the device operations of the last step, in order
    nTUR, nSense, nReadCap,   \* CBWs written so far, by opcode
    lastCapacity,       \* the device's last complete answer to Read Capacity
    nNotReady,          \* not-ready answers the device has given to Test Unit Ready
    outstanding,        \* CBWs the device has received whose CSW was never read
    env,                \* the surroundings: the not-ready answers the device gives
                        \* at most, its Read Capacity answers, the block numbers
                        \* and buffer lengths the caller uses
    opsLeft             \* block-device calls the caller will still make

envVars == <<desc, config_descriptor, lun_arg>>
scanVars == <<i, config_value, in_msc_interface, msc_interface, in_ep, out_ep>>
sessVars == <<lun, device>>
capVars == <<sector_count, block_size>>
bufVars == <<cbw, csw>>
cntVars == <<nTUR, nSense, nReadCap>>
readyVars == <<nNotReady, env>>
vars == <<pc, exc, ret, call, envVars, scanVars, sessVars, capVars, bufVars,
          max_lun, try_num, xfers, cntVars, lastCapacity, readyVars, outstanding,
          opsLeft>>

\* the state on entry to __init__, lines 70-80 executed, whatever the
\* descriptor is
Entered(luns, surroundings, ops) ==
    /\ pc = "scan"
    /\ exc = ""
    /\ ret = None
    /\ call = [op |-> "__init__"]
    /\ lun_arg \in luns
    /\ i = 0
    /\ config_value = 0
    /\ in_msc_interface = FALSE
    /\ msc_interface = None
    /\ in_ep = 0
    /\ out_ep = 0
    /\ lun = None
    /\ device = None
    /\ sector_count = None
    /\ block_size = None
    /\ cbw = <<>>
    /\ csw = <<>>
    /\ max_lun = None
    /\ try_num = 0
    /\ xfers = <<>>
    /\ nTUR = 0
    /\ nSense = 0
    /\ nReadCap = 0
    /\ lastCapacity = None
    /\ nNotReady = 0
    /\ outstanding = 0
    /\ env = surroundings
    /\ opsLeft = ops

\* the same for a device that reports the bytes of a well-formed descriptor
InitWith(descs, luns, surroundings, ops) ==
    /\ desc \in descs
    /\ config_descriptor = Flatten(desc)
    /\ Entered(luns, surroundings, ops)

Raise(name) ==
    /\ pc' = "raised"
    /\ exc' = name

(* ---------------- descriptor scan, lines 81-105 ---------------- *)
InRange(j) == j < Len(config_descriptor)
\* (mutant: the subclass is not looked at)
IsMsc_ClassOnly(interface_class, interface_subclass) == interface_class = MSC_CLASS
IsMsc(interface_class, interface_subclass) ==
    interface_class = MSC_CLASS /\ interface_subclass = MSC_SUBCLASS
IsIn(endpoint_address) == (endpoint_address \div DIR_IN) % 2 = 1
\* (mutant: endpoints of every interface are taken)
EndpointHonoured_Any(descriptor_type, in_msc) == descriptor_type = DESC_ENDPOINT
EndpointHonoured(descriptor_type, in_msc) ==
    descriptor_type = DESC_ENDPOINT /\ in_msc

\* one iteration of the while loop
ScanStep ==
    /\ pc = "scan"
    /\ i < Len(config_descriptor)
    /\ UNCHANGED <<ret, call, envVars, sessVars, capVars, bufVars, max_lun, try_num,
                   xfers, cntVars, lastCapacity, readyVars, outstanding, opsLeft>>
    /\ IF ~InRange(i + 1)
       THEN Raise("IndexError") /\ UNCHANGED scanVars
       ELSE
        LET descriptor_len == At(config_descriptor, i)
            descriptor_type == At(config_descriptor, i + 1)
        IN
        IF descriptor_type = DESC_CONFIGURATION
        THEN IF ~InRange(i + 5)
             THEN Raise("IndexError") /\ UNCHANGED scanVars
             ELSE /\ config_value' = At(config_descriptor, i + 5)
                  /\ i' = i + descriptor_len
                  /\ UNCHANGED <<pc, exc, in_msc_interface, msc_interface, in_ep, out_ep>>
        ELSE IF descriptor_type = DESC_INTERFACE
        THEN IF ~InRange(i + 6)
             THEN Raise("IndexError") /\ UNCHANGED scanVars
             ELSE LET interface_number == At(config_descriptor, i + 2)
                      interface_class == At(config_descriptor, i + 5)
                      interface_subclass == At(config_descriptor, i + 6)
                      msc == IsMsc(interface_class, interface_subclass)
                  IN
                  /\ in_msc_interface' = msc
                  /\ msc_interface' = IF msc THEN <<interface_number>> ELSE msc_interface
                  /\ i' = i + descriptor_len
                  /\ UNCHANGED <<pc, exc, config_value, in_ep, out_ep>>
        ELSE IF EndpointHonoured(descriptor_type, in_msc_interface)
        THEN IF ~InRange(i + 2)
             THEN Raise("IndexError") /\ UNCHANGED scanVars
             ELSE LET endpoint_address == At(config_descriptor, i + 2) IN
                  /\ in_ep' = IF IsIn(endpoint_address) THEN endpoint_address ELSE in_ep
                  /\ out_ep' = IF IsIn(endpoint_address) THEN out_ep ELSE endpoint_address
                  /\ i' = i + descriptor_len
                  /\ UNCHANGED <<pc, exc, config_value, in_msc_interface, msc_interface>>
        ELSE /\ i' = i + descriptor_len
             /\ UNCHANGED <<pc, exc, config_value, in_msc_interface, msc_interface,
                            in_ep, out_ep>>

\* the loop has ended: lines 104-108
ScanEnd ==
    /\ pc = "scan"
    /\ i >= Len(config_descriptor)
    /\ UNCHANGED <<ret, call, envVars, scanVars, capVars, bufVars, max_lun, try_num,
                   xfers, cntVars, lastCapacity, readyVars, outstanding, opsLeft>>
    /\ IF in_ep = 0 \/ out_ep = 0
       THEN Raise("ValueError: No MSC interface found") /\ UNCHANGED sessVars
       ELSE /\ lun' = <<lun_arg>>
            /\ device' = <<"device">>
            /\ pc' = "set_configuration"
            /\ UNCHANGED exc

(* ---------------- the bus ---------------- *)
\* one device operation: kind is "set_configuration", "ctrl_transfer", "write"
\* or "read"; data holds the bytes the model follows (a CBW, the set-up of a
\* control request, a Read Capacity answer), len the length of the buffer handed
\* to the device, res how it ended: "ok", "stall" or "error" (any other USBError)
Xfer(kind, ep, len, data, res) ==
    [kind |-> kind, ep |-> ep, len |-> len, data |-> data, res |-> res]
\* the first f operations of ops, the f-th one failing; all of them when f = 0
Attempted(ops, f) ==
    IF f = 0 THEN ops
    ELSE [j \in 1..f |-> IF j = f THEN [ops[j] EXCEPT !.res = "error"] ELSE ops[j]]
Statuses == {0, 1}
DeviceCSW(status) == <<85, 83, 66, 83>> \o Zeros(8) \o <<status>>

(* ---------------- session set-up, lines 109-132 ---------------- *)
SetConfiguration ==
    /\ pc = "set_configuration"
    /\ \E ok \in BOOLEAN :
        /\ xfers' = <<Xfer("set_configuration", 0, 0, <<config_value>>,
                            IF ok THEN "ok" ELSE "error")>>
        /\ IF ok THEN pc' = "get_max_lun" /\ UNCHANGED exc ELSE Raise("USBError")
    /\ UNCHANGED <<ret, call, envVars, scanVars, sessVars, capVars, bufVars, max_lun,
                   try_num, cntVars, lastCapacity,
                   readyVars, outstanding, opsLeft>>

GetMaxLunRequest ==
    <<REQ_RCPT_INTERFACE + REQ_TYPE_CLASS + DIR_IN, MSC_REQ_GET_GET_MAX_LUN, 0,
      msc_interface[1]>>
\* max_lun after the request: the answer plus one, or 0 after a USBError
MaxLunAfter(outcome, answer) == IF outcome = "ok" THEN answer + 1 ELSE 0
\* where __init__ goes on after the request
\* (mutant: the stall is not caught)
AfterGetMaxLun_StallFatal(outcome) == IF outcome = "stall" THEN "raised" ELSE "inquire"
\* (mutant: the call of _inquire left out)
AfterGetMaxLun_NoInquiry(outcome) == "wait_for_ready"
AfterGetMaxLun(outcome) == "inquire"
TemplateCBW(l) == SetSlice(SetSlice(Zeros(CBW_LEN), 0, <<85, 83, 66, 67>>), 14, <<l>>)
TemplateCSW == SetSlice(Zeros(CSW_LEN), 0, <<85, 83, 66, 83>>)

\* the Get Max LUN request and the buffers' templates
GetMaxLun ==
    /\ pc = "get_max_lun"
    /\ \E outcome \in {"ok", "stall", "error"}, answer \in 0..1 :
        /\ outcome # "ok" => answer = 0
        /\ xfers' = <<Xfer("ctrl_transfer", 0, 1, GetMaxLunRequest, outcome)>>
        /\ max_lun' = <<MaxLunAfter(outcome, answer)>>
        /\ pc' = AfterGetMaxLun(outcome)
    /\ cbw' = TemplateCBW(lun[1])
    /\ csw' = TemplateCSW
    /\ UNCHANGED <<exc, ret, call, envVars, scanVars, sessVars, capVars, try_num,
                   cntVars, lastCapacity, readyVars, outstanding, opsLeft>>

(* ---------------- _scsi_command, lines 138-152 ---------------- *)
\* struct.pack_into("<IBxB", cbw, 8, len(data), direction, len(command))
\* (mutant: "<IBB", without the pad byte)
PackHeader_NoPad(buf, dlen, direction, clen) ==
    SetSlice(buf, 8, LE32(dlen) \o <<direction, clen>>)
PackHeader(buf, dlen, direction, clen) ==
    SetSlice(buf, 8, LE32(dlen) \o <<direction, 0, clen>>)
CommandCBW(buf, direction, command, dlen) ==
    SetSlice(PackHeader(buf, dlen, direction, Len(command)), 15, command)
\* (mutant: "if data:" left out)
DataPhase_Always(direction, dlen, payload) ==
    IF direction = DIR_IN THEN <<Xfer("read", in_ep, dlen, payload, "ok")>>
    ELSE <<Xfer("write", out_ep, dlen, <<>>, "ok")>>
DataPhase(direction, dlen, payload) ==
    IF dlen = 0 THEN <<>>
    ELSE IF direction = DIR_IN THEN <<Xfer("read", in_ep, dlen, payload, "ok")>>
    ELSE <<Xfer("write", out_ep, dlen, <<>>, "ok")>>
StatusPhase == <<Xfer("read", in_ep, CSW_LEN, <<>>, "ok")>>
Phases(newcbw, direction, dlen, payload) ==
    <<Xfer("write", out_ep, Len(newcbw), newcbw, "ok")>>
        \o DataPhase(direction, dlen, payload) \o StatusPhase
\* failure points of a command: 0 is none, f the f-th transfer
FailPoints(dlen) == 0..(IF dlen = 0 THEN 2 ELSE 3)
\* what the caller of _scsi_command sees: the exception of a failed transfer,
\* and nothing of the status the device reported
\* (mutant: a nonzero status raises)
AfterCommand_Checked(ok, status) ==
    IF ~ok THEN "USBError" ELSE IF status # 0 THEN "RuntimeError" ELSE ""
AfterCommand(ok, status) == IF ok THEN "" ELSE "USBError"
\* the command's effect: the buffers after it, its transfers, whether it
\* returned, and how many commands it leaves without their CSW read (one when
\* a transfer after the CBW write fails)
\* (payload: the bytes a data-in phase delivers, where the model follows them)
scsi_command(curcbw, curcsw, direction, command, dlen, payload, fail, status) ==
    LET newcbw == CommandCBW(curcbw, direction, command, dlen) IN
    [cbw |-> newcbw,
     csw |-> IF fail = 0 THEN DeviceCSW(status) ELSE curcsw,
     xfers |-> Attempted(Phases(newcbw, direction, dlen, payload), fail),
     ok |-> fail = 0,
     left |-> IF fail > 1 THEN 1 ELSE 0]

(* ---------------- _inquire, lines 177-183 ---------------- *)
InquiryCommand == SetSlice(SetSlice(Zeros(6), 0, <<SCSI_CMD_INQUIRY>>), 4, <<INQUIRY_LEN>>)
Inquire ==
    /\ pc = "inquire"
    /\ \E fail \in FailPoints(INQUIRY_LEN), status \in Statuses :
        LET r == scsi_command(cbw, csw, DIR_IN, InquiryCommand, INQUIRY_LEN, <<>>, fail, status) IN
        /\ cbw' = r.cbw
        /\ csw' = r.csw
        /\ xfers' = r.xfers
        /\ outstanding' = outstanding + r.left
        /\ fail # 0 => status = 0
        /\ exc' = AfterCommand(r.ok, status)
        /\ pc' = IF exc' = "" THEN "wait_for_ready" ELSE "raised"
    /\ UNCHANGED <<ret, call, envVars, scanVars, sessVars, capVars, max_lun, try_num,
                   cntVars, lastCapacity, readyVars, opsLeft>>

(* ---------------- _wait_for_ready, lines 154-175 ---------------- *)
TestReadyCommand(l) == SetSlice(SetSlice(Zeros(6), 0, <<SCSI_CMD_TEST_UNIT_READY>>), 1, <<l>>)
SenseCommand == SetSlice(SetSlice(Zeros(6), 0, <<SCSI_CMD_REQUEST_SENSE>>), 4, <<SENSE_LEN>>)
\* the loop's condition, line 168
\* (mutant: "or" for "and")
LoopAgain_Or(status, n, tries) == status # 0 \/ n < tries
LoopAgain(status, n, tries) == status # 0 /\ n < tries
\* where _wait_for_ready goes after a Test Unit Ready: lines 168 and 174
\* (mutant: the check after the loop, lines 174-175, left out)
AfterTestReady_NoCheck(status, n, tries) ==
    IF status # 0 /\ n < tries THEN "loop" ELSE "ready"
AfterTestReady(status, n, tries) ==
    IF LoopAgain(status, n, tries) THEN "loop"
    ELSE IF status # 0 THEN "raised" ELSE "ready"
ExcAfterTestReady(status, n, tries) ==
    IF AfterTestReady(status, n, tries) = "raised" THEN "RuntimeError: Out of tries" ELSE ""

\* lines 156-167 and the first evaluation of the loop's condition; when the
\* constructor returns, its locals max_lun and try_num are gone
WaitForReadyFirst ==
    /\ pc = "wait_for_ready"
    /\ \E fail \in FailPoints(0), status \in Statuses :
        LET csw1 == SetSlice(csw, StatusIndex, <<1>>)
            r == scsi_command(cbw, csw1, DIR_OUT, TestReadyCommand(lun[1]), 0, <<>>, fail, status)
            next == IF r.ok THEN AfterTestReady(At(r.csw, StatusIndex), 0, DefaultTries)
                    ELSE "raised"
        IN
        /\ fail # 0 => status = 0
        /\ (r.ok /\ status # 0) => nNotReady < env.notReadyMax
        /\ nNotReady' = IF r.ok /\ status # 0 THEN nNotReady + 1 ELSE nNotReady
        /\ cbw' = r.cbw
        /\ csw' = r.csw
        /\ xfers' = r.xfers
        /\ outstanding' = outstanding + r.left
        /\ nTUR' = nTUR + 1
        /\ try_num' = 0
        /\ max_lun' = IF next = "ready" THEN None ELSE max_lun
        /\ pc' = next
        /\ exc' = IF r.ok THEN ExcAfterTestReady(At(r.csw, StatusIndex), 0, DefaultTries)
                  ELSE "USBError"
    /\ UNCHANGED <<ret, call, envVars, scanVars, sessVars, capVars,
                   nSense, nReadCap, lastCapacity, env, opsLeft>>

\* one iteration of the loop, lines 169-172, and the condition after it
WaitForReadyLoop ==
    /\ pc = "loop"
    /\ \E f1 \in FailPoints(SENSE_LEN), s1 \in Statuses, f2 \in FailPoints(0), s2 \in Statuses :
        LET r1 == scsi_command(cbw, csw, DIR_IN, SenseCommand, SENSE_LEN, <<>>, f1, s1)
            r2 == scsi_command(r1.cbw, r1.csw, DIR_OUT, TestReadyCommand(lun[1]), 0, <<>>, f2, s2)
            ok == r1.ok /\ r2.ok
            next == IF ok
                    THEN AfterTestReady(At(r2.csw, StatusIndex), try_num + 1, DefaultTries)
                    ELSE "raised"
        IN
        /\ f1 # 0 => (s1 = 0 /\ f2 = 0 /\ s2 = 0)
        /\ f2 # 0 => s2 = 0
        /\ (ok /\ s2 # 0) => nNotReady < env.notReadyMax
        /\ nNotReady' = IF ok /\ s2 # 0 THEN nNotReady + 1 ELSE nNotReady
        /\ try_num' = IF next = "ready" THEN 0 ELSE try_num + 1
        /\ max_lun' = IF next = "ready" THEN None ELSE max_lun
        /\ nSense' = nSense + 1
        /\ nTUR' = IF r1.ok THEN nTUR + 1 ELSE nTUR
        /\ cbw' = IF r1.ok THEN r2.cbw ELSE r1.cbw
        /\ csw' = IF r1.ok THEN r2.csw ELSE r1.csw
        /\ xfers' = IF r1.ok THEN r1.xfers \o r2.xfers ELSE r1.xfers
        /\ outstanding' = outstanding + (IF r1.ok THEN r2.left ELSE r1.left)
        /\ pc' = next
        /\ exc' = IF ok
                  THEN ExcAfterTestReady(At(r2.csw, StatusIndex), try_num + 1, DefaultTries)
                  ELSE "USBError"
    /\ UNCHANGED <<ret, call, envVars, scanVars, sessVars, capVars,
                   nReadCap, lastCapacity, env, opsLeft>>

(* ---------------- readblocks and writeblocks, lines 198-226 ---------------- *)
\* 0x01020304 and the largest 32-bit block number
BlockNums == {Big(258, 772), Big(65535, 65535)}
\* one block, 258 blocks, the largest count of a READ(10), one block more
BufLens == {BLOCK, 258 * BLOCK, 65535 * BLOCK, 65536 * BLOCK}
\* struct.pack_into(">BBIxH", command, 0, opcode, lun, block_num, count) accepts
\* the values that fit their fields
Packable(l, block_num, count) == l < 256 /\ Fits32(block_num) /\ count < 65536
\* a value that does not fit raises (CPython's struct.error, CircuitPython's
\* OverflowError) or is truncated to the field (MicroPython)
PackOutcomes(l, block_num, count) ==
    IF Packable(l, block_num, count) THEN {"packed"} ELSE {"raise", "truncate"}
BlockCount(buflen) == buflen \div BLOCK
\* command = bytearray(10) with the nine packed bytes: the tenth stays 0
\* (mutant: the block number packed little-endian)
ReadWriteCommand_LittleEndian(opcode, l, block_num, count) ==
    <<opcode, l % 256>> \o <<block_num[2] % 256, block_num[2] \div 256,
                             block_num[1] % 256, (block_num[1] \div 256) % 256>>
        \o <<0>> \o BE16(count % 65536) \o <<0>>
ReadWriteCommand(opcode, l, block_num, count) ==
    <<opcode, l % 256>> \o BE32(Big(block_num[1] % 65536, block_num[2]))
        \o <<0>> \o BE16(count % 65536) \o <<0>>
ReadDirection == DIR_IN
WriteDirection == DIR_OUT

BlockIO(name, opcode, direction) ==
    /\ pc = "ready"
    /\ opsLeft > 0
    /\ opsLeft' = opsLeft - 1
    /\ \E block_num \in env.blockNums, buflen \in env.bufLens :
        /\ call' = [op |-> name, block_num |-> block_num, buflen |-> buflen]
        /\ \E packing \in PackOutcomes(lun[1], block_num, BlockCount(buflen)) :
            IF packing = "raise"
            THEN /\ exc' = "OverflowError"
                 /\ xfers' = <<>>
                 /\ UNCHANGED <<bufVars, outstanding>>
            ELSE \E fail \in FailPoints(buflen), status \in Statuses :
                LET command == ReadWriteCommand(opcode, lun[1], block_num, BlockCount(buflen))
                    r == scsi_command(cbw, csw, direction, command, buflen, <<>>, fail, status)
                IN
                /\ fail # 0 => status = 0
                /\ cbw' = r.cbw
                /\ csw' = r.csw
                /\ xfers' = r.xfers
                /\ outstanding' = outstanding + r.left
                /\ exc' = AfterCommand(r.ok, status)
    /\ ret' = None
    /\ UNCHANGED <<pc, envVars, scanVars, sessVars, capVars, max_lun, try_num, cntVars,
                   lastCapacity, readyVars>>

Readblocks == BlockIO("readblocks", SCSI_CMD_READ_10, ReadDirection)
Writeblocks == BlockIO("writeblocks", SCSI_CMD_WRITE_10, WriteDirection)

(* ---------------- _read_capacity and ioctl, lines 185-196, 228-236 ---------------- *)
ReadCapacityCommand == SetSlice(Zeros(10), 0, <<SCSI_CMD_READ_CAPACITY_10>>)
\* answers of the device to Read Capacity: 1000 blocks of 512; the largest
\* last LBA; a last LBA whose successor carries into the upper half; any bytes
Capacities ==
    {<<0, 0, 3, 231, 0, 0, 2, 0>>, <<255, 255, 255, 255, 0, 0, 2, 0>>,
     <<0, 0, 255, 255, 0, 0, 16, 0>>, <<1, 2, 3, 4, 255, 255, 255, 255>>}
\* init, block count, block size, erase
Operations == {1, 4, 5, 6}
Args == {None, <<7>>}
\* "not self.sector_count"
Falsy(v) == v = None \/ v = Big(0, 0)
\* (mutant: the count kept in 32 bits)
SectorCountOf_Wrap(response) ==
    Big(BigAdd1(UnpackBE32(response, 0))[1] % 65536, BigAdd1(UnpackBE32(response, 0))[2])
SectorCountOf(response) == BigAdd1(UnpackBE32(response, 0))
BlockSizeOf(response) == UnpackBE32(response, 4)
\* (mutant: ">=" for "==")
IsBlockCount_AtLeast(operation) == operation >= MP_BLOCKDEV_IOCTL_BLOCK_COUNT
\* (mutant: the operation is not looked at)
IsBlockCount_Any(operation) == TRUE
IsBlockCount(operation) == operation = MP_BLOCKDEV_IOCTL_BLOCK_COUNT
\* (mutant: the cache is never used)
NeedsCapacity_Always(count) == TRUE
NeedsCapacity(count) == Falsy(count)

Ioctl ==
    /\ pc = "ready"
    /\ opsLeft > 0
    /\ opsLeft' = opsLeft - 1
    /\ \E operation \in Operations, arg \in Args :
        /\ call' = [op |-> "ioctl", operation |-> operation, arg |-> arg]
        /\ IF IsBlockCount(operation) /\ NeedsCapacity(sector_count)
           THEN \E response \in env.capacities, fail \in FailPoints(CAPACITY_LEN),
                   status \in Statuses :
                LET r == scsi_command(cbw, csw, DIR_IN, ReadCapacityCommand, CAPACITY_LEN,
                                      response, fail, status)
                IN
                /\ fail # 0 => status = 0
                /\ cbw' = r.cbw
                /\ csw' = r.csw
                /\ xfers' = r.xfers
                /\ outstanding' = outstanding + r.left
                /\ nReadCap' = nReadCap + 1
                /\ exc' = AfterCommand(r.ok, status)
                /\ IF exc' = ""
                   THEN /\ sector_count' = SectorCountOf(response)
                        /\ block_size' = BlockSizeOf(response)
                        /\ lastCapacity' = response
                        /\ ret' = sector_count'
                   ELSE /\ ret' = None
                        /\ UNCHANGED <<capVars, lastCapacity>>
           ELSE /\ ret' = IF IsBlockCount(operation) THEN sector_count ELSE None
                /\ exc' = ""
                /\ xfers' = <<>>
                /\ UNCHANGED <<capVars, bufVars, nReadCap, lastCapacity, outstanding>>
    /\ UNCHANGED <<pc, envVars, scanVars, sessVars, max_lun, try_num, nTUR, nSense,
                   readyVars>>

Next ==
    \/ ScanStep
    \/ ScanEnd
    \/ SetConfiguration
    \/ GetMaxLun
    \/ Inquire
    \/ WaitForReadyFirst
    \/ WaitForReadyLoop
    \/ Readblocks
    \/ Writeblocks
    \/ Ioctl

\* surroundings: a device that is not ready at most n times, and a caller and
\* a device that use all the values above, or one of each
Varied(n) ==
    [notReadyMax |-> n, blockNums |-> BlockNums, bufLens |-> BufLens,
     capacities |-> Capacities]
Plain(n) ==
    [notReadyMax |-> n, blockNums |-> {Big(258, 772)}, bufLens |-> {BLOCK},
     capacities |-> {<<0, 0, 3, 231, 0, 0, 2, 0>>}]
StorageDesc == [cfg |-> 2, ifaces |-> <<HidIface(1), MscIface(2)>>]

\* a session on a storage device or a keyboard, with a lun the caller passes
Init == InitWith(SessionDescs, LunArgs, Varied(1), MaxOps)
Spec == Init /\ [][Next]_vars

\* the readiness loop against a device that may stay not ready throughout
InitReady == InitWith({StorageDesc}, LunArgs, Plain(DefaultTries + 1), 1)
SpecReady == InitReady /\ [][Next]_vars

\* the scan over every well-formed descriptor of at most MaxIfaces interfaces
InitScan == InitWith(WellFormedDescs, {0}, Plain(1), 1)
SpecScan == InitScan /\ [][Next]_vars

\* descriptors that are not well formed: the bytes of StorageDesc cut short
\* after n bytes, or with one byte set to 0
CutShort(bytes, n) == Slice(bytes, 0, n)
Zeroed(bytes, k) == SetSlice(bytes, k, <<0>>)
DamagedDescs ==
    {CutShort(Flatten(StorageDesc), n) : n \in 0..Len(Flatten(StorageDesc))}
        \cup {Zeroed(Flatten(StorageDesc), k) : k \in 0..(Len(Flatten(StorageDesc)) - 1)}

\* the scan over these (desc is the structure the bytes were made from); the
\* interpreter goes on with the loop as long as there is a step to take
InitDamaged ==
    /\ desc = StorageDesc
    /\ config_descriptor \in DamagedDescs
    /\ Entered({0}, Plain(1), 1)
SpecDamaged == InitDamaged /\ [][Next]_vars /\ WF_vars(ScanStep) /\ WF_vars(ScanEnd)

(* ======================= claims ======================= *)
\* the CBW a call wrote first, and byte j of its command field
FirstCBW == xfers[1].data
Cmd(j) == At(FirstCBW, 15 + j)
IsBlockCall == call.op \in {"readblocks", "writeblocks"}
CallCount == call.buflen \div BLOCK
WholeBlocks == call.buflen = BLOCK * CallCount /\ CallCount >= 1
\* what C1 says of a call with opcode, flags byte and data phase as given
C1_Exchange(opcode, flags, kind, ep) ==
    /\ exc # "OverflowError"
    /\ Len(xfers) >= 1
    /\ xfers[1].kind = "write"
    /\ xfers[1].ep = out_ep
    /\ Cmd(0) = opcode
    /\ Big(Cmd(2) * 256 + Cmd(3), Cmd(4) * 256 + Cmd(5)) = call.block_num
    /\ Cmd(7) * 256 + Cmd(8) = CallCount
    /\ At(FirstCBW, 12) = flags
    /\ At(FirstCBW, 8) + 256 * At(FirstCBW, 9) + 65536 * At(FirstCBW, 10)
         + 16777216 * At(FirstCBW, 11) = BLOCK * CallCount
    /\ xfers[1].res = "ok" =>
         /\ Len(xfers) >= 2
         /\ xfers[2].kind = kind
         /\ xfers[2].ep = ep
         /\ xfers[2].len = call.buflen
C1_Says ==
    /\ call.op = "readblocks" => C1_Exchange(40, 128, "read", in_ep)
    /\ call.op = "writeblocks" => C1_Exchange(42, 0, "write", out_ep)

\* C1 (as stated): for every block number below 2^32 and every buffer of
\* 512*k bytes, k >= 1, readblocks writes a CBW with opcode 0x28, the block
\* number big-endian in command bytes 2..5, k big-endian in bytes 7..8, flags
\* 0x80 and transfer length 512*k, then reads len(buf) bytes from the IN
\* endpoint; writeblocks likewise with opcode 0x2A, flags 0x00 and a write to
\* the OUT endpoint.
C1_AsStated == (IsBlockCall /\ WholeBlocks) => C1_Says

\* C1 (amended): the same for k in 1..65535, the counts a READ(10)/WRITE(10)
\* command can carry.
C1_ReadWriteCBW == (IsBlockCall /\ WholeBlocks /\ CallCount <= 65535) => C1_Says

C1_Witness ==
    /\ call.op = "readblocks"
    /\ call.block_num = Big(258, 772)
    /\ call.buflen = 258 * BLOCK
    /\ Len(xfers) = 3
    /\ xfers[3].res = "ok"

\* the last command of the last step: its CBW is the last but one transfer
LastIsTestReady ==
    /\ Len(xfers) >= 2
    /\ xfers[Len(xfers) - 1].kind = "write"
    /\ Len(xfers[Len(xfers) - 1].data) = CBW_LEN
    /\ At(xfers[Len(xfers) - 1].data, 15) = 0
    /\ At(xfers[Len(xfers) - 1].data, 14) = 6
    /\ xfers[Len(xfers)].kind = "read"
    /\ xfers[Len(xfers)].len = CSW_LEN
    /\ xfers[Len(xfers)].res = "ok"
OutOfTries == exc = "RuntimeError: Out of tries"
Constructed == pc = "ready" /\ call.op = "__init__"

\* C2: the constructor returns only when its last command, a Test Unit Ready,
\* got CSW status 0; when Test Unit Ready never gets status 0 within the
\* budget the constructor raises RuntimeError "Out of tries" right after the
\* last failed Test Unit Ready, and nothing is issued after that.
C2_ReadyOrOutOfTries ==
    /\ [](Constructed => (LastIsTestReady /\ At(csw, StatusIndex) = 0 /\ exc = ""))
    /\ [](OutOfTries =>
            (pc = "raised" /\ LastIsTestReady /\ At(csw, StatusIndex) # 0
                /\ nNotReady = nTUR))
    /\ [][~OutOfTries]_vars

C2_Witness == OutOfTries /\ nTUR = DefaultTries + 1

\* the opcodes of the CBWs written in the last step, in order
RECURSIVE Opcodes(_)
Opcodes(xs) ==
    IF xs = <<>> THEN <<>>
    ELSE IF Head(xs).kind = "write" /\ Len(Head(xs).data) = CBW_LEN
         THEN <<At(Head(xs).data, 15)>> \o Opcodes(Tail(xs))
         ELSE Opcodes(Tail(xs))

\* C3: when Test Unit Ready first gets status 0 on its n-th attempt, n Test
\* Unit Ready and n-1 Request Sense commands have been issued, alternating:
\* each failed Test Unit Ready is followed by one Request Sense with an
\* 18-byte data-in phase and then the next Test Unit Ready.
C3_Alternation ==
    /\ Constructed => (nTUR = nNotReady + 1 /\ nSense = nNotReady)
    /\ (pc = "loop") => (nTUR = nNotReady /\ nSense = nNotReady - 1 /\ nTUR >= 1)
    /\ (pc = "loop" \/ Constructed) =>
         IF nSense = 0
         THEN Opcodes(xfers) = <<0>>
         ELSE /\ Opcodes(xfers) = <<3, 0>>
              /\ Len(xfers) = 5
              /\ xfers[2].kind = "read" /\ xfers[2].ep = in_ep /\ xfers[2].len = 18

C3_Witness == Constructed /\ nNotReady = 5 /\ nTUR = 6 /\ nSense = 5

IsIoctl4 == call.op = "ioctl" /\ call.operation = 4

\* C4 (as stated): over any sequence of calls on a session Read Capacity is
\* issued at most once.
C4_AsStated == nReadCap <= 1

\* C4 (amended): an ioctl(4) issues Read Capacity exactly when no sector count
\* is cached; once a sector count is cached no call issues Read Capacity
\* again, the cached capacity stays as it is, and every later ioctl(4) returns
\* it without any transfer.
C4_CachedOnce ==
    /\ [][(pc = "ready" /\ ~Falsy(sector_count)) =>
            /\ nReadCap' = nReadCap
            /\ sector_count' = sector_count
            /\ block_size' = block_size
            /\ IsIoctl4' => (ret' = sector_count /\ xfers' = <<>> /\ exc' = "")]_vars
    /\ [][(pc = "ready" /\ Falsy(sector_count) /\ IsIoctl4') =>
            (nReadCap' = nReadCap + 1 /\ Opcodes(xfers') = <<37>>)]_vars

C4_Witness ==
    /\ IsIoctl4
    /\ xfers = <<>>
    /\ nReadCap = 1
    /\ ret = sector_count
    /\ ret # None

BigPred(n) == IF n[2] = 0 THEN Big(n[1] - 1, 65535) ELSE Big(n[1], n[2] - 1)

\* C5: ioctl(4) returns the device's sector count, the last LBA that Read
\* Capacity reported plus one; any other operation returns None, issues no
\* transfer and changes no field of the session, whatever arg is.
C5_Ioctl ==
    [][(call'.op = "ioctl" /\ opsLeft' # opsLeft) =>
        IF call'.operation = 4
        THEN exc' = "" =>
                /\ ret' = sector_count'
                /\ lastCapacity' # None
                /\ BE32(BigPred(ret')) = Slice(lastCapacity', 0, 4)
        ELSE /\ ret' = None
             /\ exc' = ""
             /\ xfers' = <<>>
             /\ UNCHANGED <<in_ep, out_ep, lun, device, sector_count, block_size, cbw, csw>>
      ]_vars

C5_Witness ==
    /\ call.op = "ioctl"
    /\ call.operation = 5
    /\ call.arg = <<7>>
    /\ sector_count = Big(0, 1000)
    /\ ret = None

\* the structure of the reported descriptor
MscIfaces(d) ==
    {p \in 1..Len(d.ifaces) : d.ifaces[p].cls = 8 /\ d.ifaces[p].sub = 6}
InEps(f) == {f.eps[j] : j \in {k \in 1..Len(f.eps) : f.eps[k] >= 128}}
OutEps(f) == {f.eps[j] : j \in {k \in 1..Len(f.eps) : f.eps[k] > 0 /\ f.eps[k] < 128}}
TheMsc(d) == d.ifaces[CHOOSE p \in MscIfaces(d) : TRUE]
OneMscWithBoth(d) ==
    /\ Cardinality(MscIfaces(d)) = 1
    /\ InEps(TheMsc(d)) # {}
    /\ OutEps(TheMsc(d)) # {}
ScanFailed == exc \in {"ValueError: No MSC interface found", "IndexError"}

\* C6: for a well-formed descriptor with exactly one class 8 / subclass 6
\* interface that has an IN and an OUT endpoint, the scan selects the
\* configuration record's value, that interface's IN endpoint as in_ep and its
\* OUT endpoint as out_ep; no endpoint of another interface ever becomes in_ep
\* or out_ep.
C6_ScanSelects ==
    OneMscWithBoth(desc) =>
        /\ in_ep \in {0} \cup InEps(TheMsc(desc))
        /\ out_ep \in {0} \cup OutEps(TheMsc(desc))
        /\ pc # "scan" =>
            /\ ~ScanFailed
            /\ config_value = desc.cfg
            /\ in_ep \in InEps(TheMsc(desc))
            /\ out_ep \in OutEps(TheMsc(desc))

C6_Witness ==
    /\ pc = "set_configuration"
    /\ desc.cfg = 2
    /\ Len(desc.ifaces) = 2
    /\ desc.ifaces[1] = [num |-> 0, cls |-> 8, sub |-> 5, eps |-> <<129, 1>>]
    /\ desc.ifaces[2] = [num |-> 1, cls |-> 8, sub |-> 6, eps |-> <<2, 0, 130>>]
    /\ config_value = 2
    /\ in_ep = 130
    /\ out_ep = 2

\* C7: when the class 8 / subclass 6 interface of the descriptor lacks an IN
\* or an OUT endpoint, or the descriptor has no such interface, construction
\* fails with ValueError "No MSC interface found".
C7_NoMscInterface ==
    (pc # "scan" /\ Cardinality(MscIfaces(desc)) <= 1 /\ ~OneMscWithBoth(desc)) =>
        (pc = "raised" /\ exc = "ValueError: No MSC interface found")

C7_Witness ==
    /\ exc = "ValueError: No MSC interface found"
    /\ Len(desc.ifaces) = 2
    /\ desc.ifaces[1] = [num |-> 0, cls |-> 8, sub |-> 6, eps |-> <<129>>]
    /\ desc.ifaces[2] = [num |-> 1, cls |-> 3, sub |-> 6, eps |-> <<130, 2>>]

\* C8: when the Get Max LUN request (0xA1, request 254, index the storage
\* interface) is answered with a stall, construction does not fail: max_lun
\* is 0 and construction goes on to the Inquiry command from the same state
\* as when the request completes.
C8_StallTolerated ==
    [][pc = "get_max_lun" =>
        /\ pc' = "inquire"
        /\ exc' = ""
        /\ Len(xfers') = 1
        /\ xfers'[1].kind = "ctrl_transfer"
        /\ xfers'[1].data = <<161, 254, 0, TheMsc(desc).num>>
        /\ xfers'[1].res = "stall" => max_lun' = <<0>>
        /\ cbw' = TemplateCBW(lun_arg)
        /\ csw' = TemplateCSW
        /\ UNCHANGED <<in_ep, out_ep, lun, device, sector_count, block_size, nTUR, nSense>>
      ]_vars

C8_Witness ==
    /\ pc = "inquire"
    /\ xfers[1].kind = "ctrl_transfer"
    /\ xfers[1].res = "stall"
    /\ max_lun = <<0>>

\* C9: _read_capacity sets sector_count to the unsigned big-endian value of
\* bytes 0..3 of the answer plus 1, without wrapping at 2^32, and block_size to
\* the unsigned big-endian value of bytes 4..7; 00 00 03 E7 00 00 02 00 gives
\* 1000 and 512.
C9_Capacity ==
    (call.op = "ioctl" /\ exc = "" /\ Len(xfers) = 3) =>
        LET r == xfers[2].data
            low == 256 * At(r, 2) + At(r, 3) + 1
        IN
        /\ Len(r) = 8
        /\ sector_count = Big(256 * At(r, 0) + At(r, 1) + low \div 65536, low % 65536)
        /\ block_size = Big(256 * At(r, 4) + At(r, 5), 256 * At(r, 6) + At(r, 7))
        /\ sector_count # Big(0, 0)
        /\ r = <<0, 0, 3, 231, 0, 0, 2, 0>> =>
             (sector_count = Big(0, 1000) /\ block_size = Big(0, 512))
        /\ Slice(r, 0, 4) = <<255, 255, 255, 255>> => sector_count = Big(65536, 0)

C9_Witness ==
    /\ call.op = "ioctl"
    /\ exc = ""
    /\ Len(xfers) = 3
    /\ xfers[2].data = <<255, 255, 255, 255, 0, 0, 2, 0>>
    /\ sector_count = Big(65536, 0)

\* C10: every CBW written to the device carries the session's LUN in byte 13,
\* between the flags byte and the command-length byte.
C10_LunByte ==
    \A j \in 1..Len(xfers) :
        (xfers[j].kind = "write" /\ Len(xfers[j].data) = CBW_LEN) =>
            At(xfers[j].data, 13) = lun[1]

\* the last step's transfers all completed; its bulk transfers
AllOk(xs) == \A j \in 1..Len(xs) : xs[j].res = "ok"
IsBulk(x) == x.kind \in {"read", "write"}
Bulk(xs) == SelectSeq(xs, IsBulk)
LE32Value(buf, off) ==
    At(buf, off) + 256 * At(buf, off + 1) + 65536 * At(buf, off + 2)
        + 16777216 * At(buf, off + 3)
\* xs is a concatenation of complete exchanges: a 31-byte write to the OUT
\* endpoint; a data transfer of the announced length in the announced
\* direction when that length is not 0; a 13-byte read from the IN endpoint
RECURSIVE Exchanges(_)
Exchanges(xs) ==
    IF xs = <<>> THEN TRUE
    ELSE
        LET c == xs[1].data
            dlen == LE32Value(c, 8)
            n == IF dlen = 0 THEN 2 ELSE 3
        IN
        /\ xs[1].kind = "write"
        /\ xs[1].ep = out_ep
        /\ xs[1].len = 31
        /\ Len(c) = 31
        /\ Len(xs) >= n
        /\ dlen # 0 =>
            /\ xs[2].len = dlen
            /\ xs[2].data # c
            /\ IF At(c, 12) = 128
               THEN xs[2].kind = "read" /\ xs[2].ep = in_ep
               ELSE xs[2].kind = "write" /\ xs[2].ep = out_ep
        /\ xs[n].kind = "read"
        /\ xs[n].ep = in_ep
        /\ xs[n].len = 13
        /\ Exchanges(SubSeq(xs, n + 1, Len(xs)))

\* C11: when no transfer fails, the bulk transfers of a session are a
\* concatenation of complete exchanges (CBW write to the OUT endpoint; one data
\* transfer of len(data) bytes in the command's direction only when data is
\* not empty; one 13-byte CSW read from the IN endpoint), a block call's data
\* transfer has the length of its buffer, and no command is left without its
\* CSW read when the next CBW is written.
C11_Exchanges ==
    /\ [](AllOk(xfers) =>
            /\ Exchanges(Bulk(xfers))
            /\ (IsBlockCall /\ xfers # <<>>) =>
                 (Len(xfers) = 3 /\ xfers[2].len = call.buflen))
    /\ [][(outstanding = 0 /\ AllOk(xfers')) => outstanding' = 0]_vars

C11_Witness ==
    /\ pc = "ready"
    /\ call.op = "__init__"
    /\ nSense = 1
    /\ Len(xfers) = 5
    /\ AllOk(xfers)
    /\ outstanding = 0

\* C12: _wait_for_ready issues at most `tries` Test Unit Ready commands, at
\* most 100 with the default budget, before it returns or raises.
C12_AtMostTries == nTUR <= DefaultTries

\* C13: a failed transfer other than a stall of the Get Max LUN request is the
\* last transfer of its operation and reaches the caller: the constructor
\* raises, a block-device call raises.
C13_Propagates ==
    \A j \in 1..Len(xfers) :
        (xfers[j].res # "ok"
            /\ ~(xfers[j].kind = "ctrl_transfer" /\ xfers[j].res = "stall")) =>
            /\ j = Len(xfers)
            /\ exc = "USBError"
            /\ call.op = "__init__" => pc = "raised"

LastMsc(d) == d.ifaces[CHOOSE p \in MscIfaces(d) : \A q \in MscIfaces(d) : q <= p]

\* C14: when the descriptor has more than one class 8 / subclass 6 interface,
\* the interface number, in_ep and out_ep after the scan all belong to the
\* last of them, and the scan fails when that one lacks an IN or an OUT
\* endpoint.
C14_LastWins ==
    (pc # "scan" /\ Cardinality(MscIfaces(desc)) > 1) =>
        IF InEps(LastMsc(desc)) # {} /\ OutEps(LastMsc(desc)) # {}
        THEN /\ ~ScanFailed
             /\ msc_interface = <<LastMsc(desc).num>>
             /\ in_ep \in InEps(LastMsc(desc))
             /\ out_ep \in OutEps(LastMsc(desc))
        ELSE pc = "raised" /\ exc = "ValueError: No MSC interface found"

\* the CBWs written in the last step (the writes whose bytes the model follows)
IsCBWWrite(x) == x.kind = "write" /\ x.data # <<>>
CBWs(xs) == SelectSeq(xs, IsCBWWrite)
Issued(command, dlen, flags) == [cmd |-> command, dlen |-> dlen, flags |-> flags]
\* the READ(10)/WRITE(10) command of the last call, byte by byte
BlockCommand(opcode) ==
    <<opcode, lun[1],
      call.block_num[1] \div 256, call.block_num[1] % 256,
      call.block_num[2] \div 256, call.block_num[2] % 256,
      0, (CallCount \div 256) % 256, CallCount % 256, 0>>
\* the commands the last step issues, in order, with the length of their data
\* buffer and their direction
CommandsOfStep ==
    IF call.op = "readblocks" THEN <<Issued(BlockCommand(40), call.buflen, 128)>>
    ELSE IF call.op = "writeblocks" THEN <<Issued(BlockCommand(42), call.buflen, 0)>>
    ELSE IF call.op = "ioctl" THEN <<Issued(<<37, 0, 0, 0, 0, 0, 0, 0, 0, 0>>, 8, 128)>>
    ELSE IF nTUR = 0 THEN <<Issued(<<18, 0, 0, 0, 36, 0>>, 36, 128)>>
    ELSE IF nSense = 0 THEN <<Issued(<<0, lun[1], 0, 0, 0, 0>>, 0, 0)>>
    ELSE <<Issued(<<3, 0, 0, 0, 18, 0>>, 18, 128), Issued(<<0, lun[1], 0, 0, 0, 0>>, 0, 0)>>
WellFormedCBW(x, issued) ==
    /\ x.len = 31
    /\ Len(x.data) = 31
    /\ Slice(x.data, 0, 4) = <<85, 83, 66, 67>>
    /\ At(x.data, 14) = Len(issued.cmd)
    /\ At(x.data, 14) \in 1..16
    /\ Slice(x.data, 15, Len(issued.cmd)) = issued.cmd
    /\ LE32Value(x.data, 8) = issued.dlen
    /\ At(x.data, 12) = issued.flags
    /\ issued.flags \in {0, 128}

\* C15: every CBW written, after any sequence of 6-byte and 10-byte commands,
\* is 31 bytes long, begins with 55 53 42 43, has at offset 14 the length of
\* the command just issued (1..16), that command's bytes from offset 15, the
\* little-endian length of the data buffer at offsets 8..11 and the requested
\* direction (0x80 or 0x00) at offset 12.
C15_CBWLayout ==
    /\ Len(CBWs(xfers)) <= Len(CommandsOfStep)
    /\ \A j \in 1..Len(CBWs(xfers)) : WellFormedCBW(CBWs(xfers)[j], CommandsOfStep[j])

C15_Witness ==
    /\ call.op = "writeblocks"
    /\ opsLeft = 0
    /\ nSense = 1
    /\ call.buflen = 258 * BLOCK
    /\ Len(CBWs(xfers)) = 1
    /\ At(CBWs(xfers)[1].data, 14) = 10
    /\ Slice(CBWs(xfers)[1].data, 8, 4) = <<0, 4, 2, 0>>

\* the order of construction, as each position of the constructor shows it
ConstructionOrder ==
    /\ (pc \in {"scan", "set_configuration"} \/ ScanFailed) => xfers = <<>>
    /\ pc = "get_max_lun" =>
         xfers = <<Xfer("set_configuration", 0, 0, <<desc.cfg>>, "ok")>>
    /\ pc = "inquire" =>
         /\ Len(xfers) = 1
         /\ xfers[1].kind = "ctrl_transfer"
         /\ xfers[1].data[2] = 254
         /\ xfers[1].data[4] = TheMsc(desc).num
    /\ pc \in {"scan", "set_configuration", "get_max_lun", "inquire"} =>
         (nTUR = 0 /\ nSense = 0 /\ Opcodes(xfers) = <<>> /\ call.op = "__init__")
    /\ pc = "wait_for_ready" =>
         /\ nTUR = 0
         /\ nSense = 0
         /\ Opcodes(xfers) = <<18>>
         /\ Len(xfers) = 3
         /\ xfers[2].kind = "read" /\ xfers[2].ep = in_ep /\ xfers[2].len = 36
    /\ (call.op = "__init__" /\ nTUR > 0) =>
         \A j \in 1..Len(Opcodes(xfers)) : Opcodes(xfers)[j] \in {0, 3}
    /\ call.op # "__init__" =>
         (pc = "ready" /\ \A j \in 1..Len(Opcodes(xfers)) : Opcodes(xfers)[j] \in {40, 42, 37})
\* the call of a step issues a SCSI command: readblocks, writeblocks, or an
\* ioctl(4) that finds no sector count cached
IssuingCall ==
    \/ call'.op \in {"readblocks", "writeblocks"}
    \/ IsIoctl4' /\ Falsy(sector_count)
\* after construction no call issues Test Unit Ready or Request Sense
NoReadinessLoop == pc = "ready" => (nTUR' = nTUR /\ nSense' = nSense /\ pc' = "ready")

\* C16 (as stated): construction goes scan, set_configuration with the scanned
\* value, Get Max LUN to the storage interface, exactly one Inquiry with a
\* 36-byte data-in phase as first SCSI command, then the first Test Unit
\* Ready; a failed scan issues nothing; after construction each readblocks,
\* writeblocks or cache-missing ioctl(4) issues exactly one SCSI command and
\* none issues Test Unit Ready or Request Sense.
C16_AsStated ==
    /\ []ConstructionOrder
    /\ [][NoReadinessLoop]_vars
    /\ [][(pc = "ready" /\ IssuingCall) => Len(Opcodes(xfers')) = 1]_vars

\* C16 (amended): the same, where a readblocks or writeblocks call issues
\* exactly one SCSI command when its block count len(buf) // 512 fits the
\* 16-bit field of the command, and none when packing the command raises.
C16_ConstructionOrder ==
    /\ []ConstructionOrder
    /\ [][NoReadinessLoop]_vars
    /\ [][(pc = "ready" /\ IssuingCall) =>
            /\ Len(Opcodes(xfers')) <= 1
            /\ (IsIoctl4' \/ call'.buflen \div BLOCK <= 65535) => Len(Opcodes(xfers')) = 1
            /\ Len(Opcodes(xfers')) = 0 => exc' = "OverflowError"]_vars

C16_Witness ==
    /\ call.op = "readblocks"
    /\ exc = ""
    /\ Opcodes(xfers) = <<40>>
    /\ nTUR = 2
    /\ nSense = 1
    /\ opsLeft = 0

\* C17: after construction no readblocks, writeblocks or ioctl call changes
\* device, lun, in_ep or out_ep; readblocks and writeblocks leave sector_count
\* and block_size as they are; only an ioctl(4) changes them.
C17_Immutable ==
    [][pc = "ready" =>
        /\ UNCHANGED <<device, lun, in_ep, out_ep>>
        /\ call'.op \in {"readblocks", "writeblocks"} => UNCHANGED <<sector_count, block_size>>
        /\ ~UNCHANGED <<sector_count, block_size>> => IsIoctl4'
      ]_vars

C17_Witness ==
    /\ call.op = "writeblocks"
    /\ exc = ""
    /\ opsLeft = 0
    /\ sector_count = Big(0, 1000)
    /\ block_size = Big(0, 512)
    /\ lun = <<1>>
    /\ device # None

\* the last step's command completed, with the status the device gave it
Completed == xfers # <<>> /\ AllOk(xfers) /\ Opcodes(xfers) # <<>>

\* C18: outside the readiness loop the CSW status is not acted upon: the
\* Inquiry, readblocks, writeblocks and Read Capacity return normally, with
\* one command issued, whether their CSW status is 0 or not, and ioctl(4)
\* caches and returns the sector count of the response even when Read
\* Capacity's status is not 0.
C18_StatusIgnored ==
    /\ []((IsBlockCall /\ Completed) =>
            (exc = "" /\ pc = "ready" /\ Len(Opcodes(xfers)) = 1 /\ ret = None))
    /\ []((IsIoctl4 /\ Completed) =>
            /\ exc = ""
            /\ Opcodes(xfers) = <<37>>
            /\ ret = sector_count
            /\ BE32(BigPred(sector_count)) = Slice(xfers[2].data, 0, 4)
            /\ BE32(block_size) = Slice(xfers[2].data, 4, 4))
    /\ [][(pc = "inquire" /\ AllOk(xfers')) =>
            (pc' = "wait_for_ready" /\ exc' = "" /\ Opcodes(xfers') = <<18>>)]_vars

C18_Witness ==
    /\ IsIoctl4
    /\ Completed
    /\ At(csw, StatusIndex) = 1
    /\ xfers[2].data = <<0, 0, 3, 231, 0, 0, 2, 0>>
    /\ ret = Big(0, 1000)
    /\ sector_count = Big(0, 1000)

\* C19: over every sequence of block-device calls, also when a transfer fails
\* after the CBW write and the caller makes another call, a new CBW is never
\* written while an earlier CBW's CSW has not been read.
C19_OneOutstanding ==
    [][outstanding > 0 =>
        \A j \in 1..Len(xfers') : ~(IsCBWWrite(xfers'[j]) /\ xfers'[j].res = "ok")]_vars

\* C20: the scan loop ends for every descriptor, also one that is not well
\* formed (the index grows in every iteration): the constructor leaves the
\* scan, with endpoints selected or with an error.
C20_ScanTerminates == <>(pc # "scan")
====
